---- MODULE Spec2Model ----
(***************************************************************************)
(* AutoViz Pro (src/index.py): a Streamlit script that loads an uploaded   *)
(* table, classifies its columns, generates a fixed battery of plots and   *)
(* serialises them into a ZIP archive and an HTML report.                  *)
(*                                                                         *)
(* The script is rerun from its first line on every user interaction.  One *)
(* run is modelled as a sequence of steps (pc), each step one block of the *)
(* script; the user's interactions start a new run.  Text is modelled as a *)
(* sequence of one-character strings, so that endswith and replace are     *)
(* computed as Python computes them.                                       *)
(***************************************************************************)
EXTENDS Integers, Sequences, FiniteSets, TLC

VARIABLES
    uploaded_file,    \* <<>> (None) or <<file>>: the file_uploader widget's value
    uploading,        \* the run was started by the user picking a file
    button,           \* what st.button returns in the current run
    pc,               \* position of the current run in the script
    df,               \* <<>> (None) or <<columns>>: the loaded table
    numeric_cols,     \* analyze_data's three results
    categorical_cols,
    datetime_cols,
    plots,            \* generate_visualizations: list of <<plot_type, fig, label>>
    total_plots,
    plot_counter,
    i,                \* index of the running for loop
    progress,         \* the values passed to progress_bar.progress, in call order
    progress_bar,     \* <<>> (no widget / emptied) or <<value>>: the widget's value
    done,             \* the stages of the pipeline completed in the current run
    screen,           \* the elements the run has displayed so far, in order
    tabs,             \* <<>> or <<content of the four tabs>>
    zip_buffer,       \* <<>> (not built) or <<entries of the archive>>
    html_report,      \* <<>> (not built) or <<fragments of the document>>
    load_calls        \* calls of load_data in the current run

vars == <<uploaded_file, uploading, button, pc, df, numeric_cols, categorical_cols,
          datetime_cols, plots, total_plots, plot_counter, i, progress,
          progress_bar, done, screen, tabs, zip_buffer, html_report,
          load_calls>>

(***************************************************************************)
(* Bounds of the model and constants of the program.                       *)
(***************************************************************************)
MaxCols == 4

NuniqueLimit == 20

(***************************************************************************)
(* Text.                                                                   *)
(***************************************************************************)
Min(a, b) == IF a <= b THEN a ELSE b

\* str.endswith(suffix)
EndsWith(s, suffix) ==
    /\ Len(suffix) <= Len(s)
    /\ SubSeq(s, Len(s) - Len(suffix) + 1, Len(s)) = suffix

\* str.endswith((suffix, ...)): true when any of the suffixes matches
EndsWithAny(s, suffixes) == \E suffix \in suffixes : EndsWith(s, suffix)

\* str.replace(old, new) for one-character old and new
Replace(s, old, new) == [k \in 1..Len(s) |-> IF s[k] = old THEN new ELSE s[k]]

Digit(n) == <<"0", "1", "2", "3", "4", "5", "6", "7", "8", "9">>[n + 1]

\* str(n) for n >= 0
RECURSIVE Str(_)
Str(n) == IF n < 10 THEN <<Digit(n)>> ELSE Str(n \div 10) \o <<Digit(n % 10)>>

CsvSuffix == <<".", "c", "s", "v">>
XlsxSuffix == <<".", "x", "l", "s", "x">>
XlsSuffix == <<".", "x", "l", "s">>

\* the plot_type tags, as the text an f-string writes for them
TypeText(plot_type) ==
    CASE plot_type = "histogram" -> <<"h", "i", "s", "t", "o", "g", "r", "a", "m">>
      [] plot_type = "boxplot" -> <<"b", "o", "x", "p", "l", "o", "t">>
      [] plot_type = "barplot" -> <<"b", "a", "r", "p", "l", "o", "t">>
      [] plot_type = "heatmap" -> <<"h", "e", "a", "t", "m", "a", "p">>
      [] plot_type = "pairplot" -> <<"p", "a", "i", "r", "p", "l", "o", "t">>
      [] plot_type = "timeseries" -> <<"t", "i", "m", "e", "s", "e", "r", "i", "e", "s">>

HeatmapLabel == <<"C", "o", "r", "r", "e", "l", "a", "t", "i", "o", "n">>

PairplotLabel == <<"P", "a", "i", "r", "w", "i", "s", "e", " ",
                   "R", "e", "l", "a", "t", "i", "o", "n", "s", "h", "i", "p", "s">>

\* f"{date_col} & {num_col}"
TimeseriesLabel(date_col, num_col) == date_col \o <<" ", "&", " ">> \o num_col

(***************************************************************************)
(* The inputs: uploaded files.  A file has a name and a content; the       *)
(* content either makes the parser raise or parses to a table.  A table is *)
(* its columns in order, each with a name, a dtype and the number of its   *)
(* distinct non-null values.  Column names are pairwise distinct (pandas   *)
(* mangles duplicates on reading); the k-th column is named "c 1", "c_1",  *)
(* "c 2", "c_2", ... so that names with spaces and names that collide once *)
(* spaces become underscores both occur.                                   *)
(***************************************************************************)
ColumnName(k) ==
    <<"c", IF k % 2 = 1 THEN " " ELSE "_">> \o Str((k + 1) \div 2)

DTypes == {"float64", "datetime64", "object"}

NuniqueValues == {NuniqueLimit, NuniqueLimit + 1}

Columns(n) ==
    { [k \in 1..n |-> [name |-> ColumnName(k), dtype |-> p[k][1], nunique |-> p[k][2]]] :
        p \in [1..n -> DTypes \X NuniqueValues] }

Tables == UNION { Columns(n) : n \in 0..MaxCols }

FileNames == { <<"d", ".", "c", "s", "v">>,
               <<"d", ".", "x", "l", "s", "x">>,
               <<"d", ".", "x", "l", "s">>,
               <<"d", ".", "t", "x", "t">>,
               <<"d", ".", "C", "S", "V">> }

\* pd.read_csv raises on a file without columns; a spreadsheet may be empty.
Files ==
    { [name |-> n, parses |-> FALSE, columns |-> <<>>] : n \in FileNames }
    \cup
    { f \in [name : FileNames, parses : {TRUE}, columns : Tables] :
        /\ ~EndsWithAny(f.name, {CsvSuffix, XlsxSuffix, XlsSuffix}) => f.columns = <<>>
        /\ EndsWith(f.name, CsvSuffix) => f.columns # <<>> }

(***************************************************************************)
(* load_data                                                               *)
(***************************************************************************)
\* Faulty variant of load_data, for testing the properties: a name with another suffix is parsed all the same.
load_data_any_suffix(file) ==
    IF file.parses
    THEN [df |-> <<file.columns>>, error |-> <<>>]
    ELSE [df |-> <<>>, error |-> <<"Error loading file">>]

\* The result of load_data: the table (or None) and the error it reports.
load_data(file) ==
    IF EndsWith(file.name, CsvSuffix) \/ EndsWithAny(file.name, {XlsxSuffix, XlsSuffix})
    THEN IF file.parses
         THEN [df |-> <<file.columns>>, error |-> <<>>]
         ELSE [df |-> <<>>, error |-> <<"Error loading file">>]
    ELSE [df |-> <<>>, error |-> <<"Unsupported file format">>]

(***************************************************************************)
(* analyze_data                                                            *)
(***************************************************************************)
is_numeric_dtype(col) == col.dtype = "float64"

is_datetime64_any_dtype(col) == col.dtype = "datetime64"

\* Faulty variant of ClassifyColumn, for testing the properties: the cardinality test is off by one.
ClassifyColumnStrict(col, lists) ==
    IF is_numeric_dtype(col)
    THEN [lists EXCEPT !.numeric = Append(@, col.name)]
    ELSE IF is_datetime64_any_dtype(col)
    THEN [lists EXCEPT !.datetime = Append(@, col.name)]
    ELSE IF col.nunique < NuniqueLimit
    THEN [lists EXCEPT !.categorical = Append(@, col.name)]
    ELSE lists

\* One iteration of the loop over df.columns: the three lists after col.
ClassifyColumn(col, lists) ==
    IF is_numeric_dtype(col)
    THEN [lists EXCEPT !.numeric = Append(@, col.name)]
    ELSE IF is_datetime64_any_dtype(col)
    THEN [lists EXCEPT !.datetime = Append(@, col.name)]
    ELSE IF col.nunique <= NuniqueLimit
    THEN [lists EXCEPT !.categorical = Append(@, col.name)]
    ELSE lists

RECURSIVE AnalyzeFrom(_, _, _)
AnalyzeFrom(columns, k, lists) ==
    IF k > Len(columns) THEN lists
    ELSE AnalyzeFrom(columns, k + 1, ClassifyColumn(columns[k], lists))

analyze_data(columns) ==
    AnalyzeFrom(columns, 1, [numeric |-> <<>>, categorical |-> <<>>, datetime |-> <<>>])

(***************************************************************************)
(* generate_visualizations                                                 *)
(***************************************************************************)
\* Faulty variant of TotalPlots, for testing the properties: the time series term is not capped by min(1, |numeric|).
TotalPlotsNoMin(numeric, categorical, datetime) ==
    Len(numeric) * 2 + Len(categorical) + Len(datetime)
    + (IF Len(numeric) > 1 THEN 2 ELSE 0)

\* total_plots, as computed before the first plot
TotalPlots(numeric, categorical, datetime) ==
    Len(numeric) * 2 + Len(categorical) + Len(datetime) * Min(1, Len(numeric))
    + (IF Len(numeric) > 1 THEN 2 ELSE 0)

\* Faulty variant of HasRelationships, for testing the properties: one numeric column is enough.
HasRelationshipsAny(numeric) == Len(numeric) > 0

\* the condition guarding the heatmap and the pairplot
HasRelationships(numeric) == Len(numeric) > 1

\* the condition guarding each time series plot
HasTimeseries(numeric) == Len(numeric) > 0

\* Faulty variant of TimeseriesNumCol, for testing the properties: the last numeric column is taken.
TimeseriesNumColLast(numeric) == numeric[Len(numeric)]

\* num_col = numeric_cols[0]
TimeseriesNumCol(numeric) == numeric[1]

\* Faulty variant of ProgressValue, for testing the properties: the counter is read before its increment.
ProgressValueStale(counter, total) == <<counter - 1, total>>

\* plot_counter/total_plots, kept as the fraction <<numerator, denominator>>
ProgressValue(counter, total) == <<counter, total>>

\* The figures: the chart drawn, the columns it draws and its title.
HistogramFig(col) ==
    [chart |-> "histplot", data |-> <<col>>, title |-> <<"Distribution of ", col, "">>]

BoxplotFig(col) ==
    [chart |-> "boxplot", data |-> <<col>>, title |-> <<"Boxplot of ", col, "">>]

BarplotFig(col) ==
    [chart |-> "countplot", data |-> <<col>>, title |-> <<"Distribution of ", col, "">>]

HeatmapFig(numeric) ==
    [chart |-> "heatmap", data |-> numeric, title |-> <<"Feature Correlation Matrix", <<>>, "">>]

PairplotFig(numeric) ==
    [chart |-> "pairplot", data |-> numeric, title |-> <<"", <<>>, "">>]

TimeseriesFig(date_col, num_col) ==
    [chart |-> "line", data |-> <<date_col, num_col>>, title |-> <<"", num_col, " over Time">>]

\* Faulty variant of AfterStage, for testing the properties: the bar plots are drawn before the boxplots.
AfterStageSwapped(stage) ==
    CASE stage = "histograms" -> "barplots"
      [] stage = "barplots" -> "boxplots"
      [] stage = "boxplots" -> "heatmap"
      [] stage = "heatmap" -> "pairplot"
      [] stage = "pairplot" -> "timeseries"
      [] stage = "timeseries" -> "return"

\* The blocks of generate_visualizations in the order the function runs them.
AfterStage(stage) ==
    CASE stage = "histograms" -> "boxplots"
      [] stage = "boxplots" -> "barplots"
      [] stage = "barplots" -> "heatmap"
      [] stage = "heatmap" -> "pairplot"
      [] stage = "pairplot" -> "timeseries"
      [] stage = "timeseries" -> "return"

\* plots.append(...); plot_counter += 1; progress_bar.progress(plot_counter/total_plots).
\* The division raises ZeroDivisionError when total_plots is 0: the run ends there.
AppendPlot(plot_type, fig, label, next_pc) ==
    /\ plots' = Append(plots, <<plot_type, fig, label>>)
    /\ plot_counter' = plot_counter + 1
    /\ IF total_plots = 0
       THEN /\ pc' = "crashed"
            /\ UNCHANGED <<progress, progress_bar>>
       ELSE /\ pc' = next_pc
            /\ progress' = Append(progress, ProgressValue(plot_counter + 1, total_plots))
            /\ progress_bar' = <<ProgressValue(plot_counter + 1, total_plots)>>

(***************************************************************************)
(* create_zip_archive and the HTML report                                  *)
(***************************************************************************)
\* fig.savefig(img_buffer, format='png', bbox_inches='tight')
Png(fig) == <<"png", fig>>

\* base64.b64encode(...).decode()
Base64(bytes) == <<"base64", bytes>>

\* Faulty variant of ZipEntryName, for testing the properties: the index is left out of the name.
ZipEntryNameNoIndex(k, plot_type, col) ==
    <<"p", "l", "o", "t", "_">> \o TypeText(plot_type)
    \o <<"_">> \o Replace(col, " ", "_") \o <<".", "p", "n", "g">>

\* f"plot_{i+1}_{plot_type}_{col.replace(' ', '_')}.png", k the 0-based index
ZipEntryName(k, plot_type, col) ==
    <<"p", "l", "o", "t", "_">> \o Str(k + 1) \o <<"_">> \o TypeText(plot_type)
    \o <<"_">> \o Replace(col, " ", "_") \o <<".", "p", "n", "g">>

\* the entries written by zip_file.writestr, in order
create_zip_archive(ps) ==
    [k \in 1..Len(ps) |->
        [name |-> ZipEntryName(k - 1, ps[k][1], ps[k][3]), data |-> Png(ps[k][2])]]

\* Faulty variant of HtmlFragments, for testing the properties: the image is written before its heading.
HtmlFragmentsImageFirst(plot) ==
    << [tag |-> "img", body |-> Base64(Png(plot[2]))],
       [tag |-> "h2", body |-> <<plot[3], plot[1]>>] >>

\* the fragments appended to html_report for one plot
HtmlFragments(plot) ==
    << [tag |-> "h2", body |-> <<plot[3], plot[1]>>],
       [tag |-> "img", body |-> Base64(Png(plot[2]))] >>

RECURSIVE HtmlBody(_, _)
HtmlBody(ps, k) ==
    IF k > Len(ps) THEN <<>> ELSE HtmlFragments(ps[k]) \o HtmlBody(ps, k + 1)

HtmlReport(ps) ==
    <<[tag |-> "html", body |-> <<>>]>> \o HtmlBody(ps, 1) \o <<[tag |-> "/html", body |-> <<>>]>>

(***************************************************************************)
(* The page: one run of the script.                                        *)
(***************************************************************************)
RunEnded == pc \in {"idle", "crashed"}

\* Streamlit reruns the script from the top: the script's names are unbound
\* and the page is drawn anew.
Rerun ==
    /\ pc' = "uploader"
    /\ df' = <<>>
    /\ numeric_cols' = <<>>
    /\ categorical_cols' = <<>>
    /\ datetime_cols' = <<>>
    /\ plots' = <<>>
    /\ total_plots' = 0
    /\ plot_counter' = 0
    /\ i' = 0
    /\ progress' = <<>>
    /\ progress_bar' = <<>>
    /\ done' = {}
    /\ screen' = <<>>
    /\ tabs' = <<>>
    /\ zip_buffer' = <<>>
    /\ html_report' = <<>>
    /\ load_calls' = 0

Shown(element) == \E k \in 1..Len(screen) : screen[k] = element

Init ==
    /\ uploaded_file = <<>>
    /\ uploading = FALSE
    /\ button = FALSE
    /\ pc = "uploader"
    /\ df = <<>>
    /\ numeric_cols = <<>>
    /\ categorical_cols = <<>>
    /\ datetime_cols = <<>>
    /\ plots = <<>>
    /\ total_plots = 0
    /\ plot_counter = 0
    /\ i = 0
    /\ progress = <<>>
    /\ progress_bar = <<>>
    /\ done = {}
    /\ screen = <<>>
    /\ tabs = <<>>
    /\ zip_buffer = <<>>
    /\ html_report = <<>>
    /\ load_calls = 0

\* The user picks a file in the uploader: the file the widget held is dropped, the
\* script is rerun, and its call of st.file_uploader returns the new file
\* (FileUploader).
Upload ==
    /\ RunEnded
    /\ uploading' = TRUE
    /\ button' = FALSE
    /\ uploaded_file' = <<>>
    /\ Rerun

\* The user removes the file from the uploader.
RemoveFile ==
    /\ RunEnded
    /\ uploaded_file # <<>>
    /\ uploaded_file' = <<>>
    /\ uploading' = FALSE
    /\ button' = FALSE
    /\ Rerun

\* The user presses "Generate Visualizations".
ClickGenerate ==
    /\ RunEnded
    /\ Shown("button")
    /\ button' = TRUE
    /\ UNCHANGED <<uploaded_file, uploading>>
    /\ Rerun

\* The user presses one of the two download buttons.
ClickDownload ==
    /\ RunEnded
    /\ Shown("download_zip") \/ Shown("download_html")
    /\ button' = FALSE
    /\ UNCHANGED <<uploaded_file, uploading>>
    /\ Rerun

\* uploaded_file = st.file_uploader(...): the file the user has just picked, or
\* else the file the widget already holds.
FileUploader ==
    /\ pc = "uploader"
    /\ IF uploading
       THEN \E f \in Files : uploaded_file' = <<f>>
       ELSE UNCHANGED uploaded_file
    /\ uploading' = FALSE
    /\ pc' = "main"
    /\ UNCHANGED <<button, df, numeric_cols, categorical_cols, datetime_cols, plots,
                   total_plots, plot_counter, i, progress, progress_bar, done, screen,
                   tabs, zip_buffer, html_report, load_calls>>

\* if uploaded_file is not None: df = load_data(uploaded_file) ... else: st.info
MainFlow ==
    /\ pc = "main"
    /\ IF uploaded_file = <<>>
       THEN /\ screen' = Append(screen, "info")
            /\ pc' = "idle"
            /\ UNCHANGED <<df, load_calls, done>>
       ELSE LET r == load_data(uploaded_file[1]) IN
            /\ load_calls' = load_calls + 1
            /\ df' = r.df
            /\ IF r.df = <<>>
               THEN /\ screen' = screen \o r.error
                    /\ pc' = "idle"
                    /\ done' = done
               ELSE /\ screen' = screen \o <<"success_loaded", "raw_data">>
                    /\ pc' = "analyze"
                    /\ done' = done \cup {"load"}
    /\ UNCHANGED <<uploaded_file, uploading, button, numeric_cols, categorical_cols, datetime_cols,
                   plots, total_plots, plot_counter, i, progress, progress_bar, tabs,
                   zip_buffer, html_report>>

\* numeric_cols, categorical_cols, datetime_cols = analyze_data(df); the three metrics
Analyze ==
    /\ pc = "analyze"
    /\ LET r == analyze_data(df[1]) IN
        /\ numeric_cols' = r.numeric
        /\ categorical_cols' = r.categorical
        /\ datetime_cols' = r.datetime
    /\ screen' = Append(screen, "metrics")
    /\ done' = done \cup {"classify"}
    /\ pc' = "button"
    /\ UNCHANGED <<uploaded_file, uploading, button, df, plots, total_plots, plot_counter, i,
                   progress, progress_bar, tabs, zip_buffer, html_report, load_calls>>

\* Faulty variant of ButtonTarget, for testing the properties: the plots are displayed without being generated first.
ButtonTargetDisplay(pressed) == IF pressed THEN "tabs" ELSE "idle"

\* where the script goes on after st.button returned pressed
ButtonTarget(pressed) == IF pressed THEN "generate" ELSE "idle"

\* if st.button("Generate Visualizations"): the button is drawn, and the body
\* runs only in the run its press started.
\* The first lines of generate_visualizations follow in GenStart.
Button ==
    /\ pc = "button"
    /\ screen' = Append(screen, "button")
    /\ pc' = ButtonTarget(button)
    /\ UNCHANGED <<uploaded_file, uploading, button, df, numeric_cols, categorical_cols,
                   datetime_cols, plots, total_plots, plot_counter, i, progress,
                   progress_bar, done, tabs, zip_buffer, html_report, load_calls>>

\* plots = []; progress_bar = st.progress(0); total_plots = ...; plot_counter = 0
GenStart ==
    /\ pc = "generate"
    /\ plots' = <<>>
    /\ progress_bar' = <<<<0, 1>>>>
    /\ total_plots' = TotalPlots(numeric_cols, categorical_cols, datetime_cols)
    /\ plot_counter' = 0
    /\ i' = 1
    /\ pc' = "histograms"
    /\ UNCHANGED <<uploaded_file, uploading, button, df, numeric_cols, categorical_cols,
                   datetime_cols, progress, done, screen, tabs, zip_buffer,
                   html_report, load_calls>>

GenUnchanged ==
    UNCHANGED <<uploaded_file, uploading, button, df, numeric_cols, categorical_cols,
                datetime_cols, total_plots, done, screen, tabs, zip_buffer,
                html_report, load_calls>>

\* for i, col in enumerate(numeric_cols), histograms: the body for the i-th
\* column, or the end of the loop.
Histograms ==
    /\ pc = "histograms"
    /\ IF i <= Len(numeric_cols)
       THEN /\ AppendPlot("histogram", HistogramFig(numeric_cols[i]), numeric_cols[i], "histograms")
            /\ i' = i + 1
       ELSE /\ pc' = AfterStage("histograms")
            /\ i' = 1
            /\ UNCHANGED <<plots, plot_counter, progress, progress_bar>>
    /\ GenUnchanged

\* for i, col in enumerate(numeric_cols), boxplots: the body for the i-th
\* column, or the end of the loop.
Boxplots ==
    /\ pc = "boxplots"
    /\ IF i <= Len(numeric_cols)
       THEN /\ AppendPlot("boxplot", BoxplotFig(numeric_cols[i]), numeric_cols[i], "boxplots")
            /\ i' = i + 1
       ELSE /\ pc' = AfterStage("boxplots")
            /\ i' = 1
            /\ UNCHANGED <<plots, plot_counter, progress, progress_bar>>
    /\ GenUnchanged

\* for i, col in enumerate(categorical_cols), bar plots: the body for the i-th
\* column, or the end of the loop.
Barplots ==
    /\ pc = "barplots"
    /\ IF i <= Len(categorical_cols)
       THEN /\ AppendPlot("barplot", BarplotFig(categorical_cols[i]), categorical_cols[i], "barplots")
            /\ i' = i + 1
       ELSE /\ pc' = AfterStage("barplots")
            /\ i' = 1
            /\ UNCHANGED <<plots, plot_counter, progress, progress_bar>>
    /\ GenUnchanged

\* if len(numeric_cols) > 1: correlation heatmap
Heatmap ==
    /\ pc = "heatmap"
    /\ IF HasRelationships(numeric_cols)
       THEN AppendPlot("heatmap", HeatmapFig(numeric_cols), HeatmapLabel, AfterStage("heatmap"))
       ELSE /\ pc' = AfterStage("heatmap")
            /\ UNCHANGED <<plots, plot_counter, progress, progress_bar>>
    /\ UNCHANGED i
    /\ GenUnchanged

\* if len(numeric_cols) > 1: pairplot
Pairplot ==
    /\ pc = "pairplot"
    /\ IF HasRelationships(numeric_cols)
       THEN AppendPlot("pairplot", PairplotFig(numeric_cols), PairplotLabel, AfterStage("pairplot"))
       ELSE /\ pc' = AfterStage("pairplot")
            /\ UNCHANGED <<plots, plot_counter, progress, progress_bar>>
    /\ UNCHANGED i
    /\ GenUnchanged

\* for date_col in datetime_cols: if len(numeric_cols) > 0: time series plot
Timeseries ==
    /\ pc = "timeseries"
    /\ IF i <= Len(datetime_cols)
       THEN /\ IF HasTimeseries(numeric_cols)
               THEN LET date_col == datetime_cols[i]
                        num_col == TimeseriesNumCol(numeric_cols)
                    IN AppendPlot("timeseries", TimeseriesFig(date_col, num_col),
                                  TimeseriesLabel(date_col, num_col), "timeseries")
               ELSE UNCHANGED <<pc, plots, plot_counter, progress, progress_bar>>
            /\ i' = i + 1
       ELSE /\ pc' = AfterStage("timeseries")
            /\ i' = 1
            /\ UNCHANGED <<plots, plot_counter, progress, progress_bar>>
    /\ GenUnchanged

\* progress_bar.empty(); return plots; st.success("Visualization complete!")
GenReturn ==
    /\ pc = "return"
    /\ progress_bar' = <<>>
    /\ done' = done \cup {"generate"}
    /\ screen' = Append(screen, "success_complete")
    /\ pc' = "tabs"
    /\ UNCHANGED <<uploaded_file, uploading, button, df, numeric_cols, categorical_cols,
                   datetime_cols, plots, total_plots, plot_counter, i, progress,
                   tabs, zip_buffer, html_report, load_calls>>

PlotIndices(types) ==
    SelectSeq([k \in 1..Len(plots) |-> k], LAMBDA k : plots[k][1] \in types)

\* The four tabs: each shows st.pyplot(fig) for the plots of its kinds; the first
\* tab alternates between two columns by the plot's index in plots.
DisplayTabs ==
    /\ pc = "tabs"
    /\ tabs' = << [ distributions |->
                      LET shown == PlotIndices({"histogram", "boxplot", "barplot"})
                      IN [k \in 1..Len(shown) |-> <<(shown[k] - 1) % 2, shown[k]>>],
                    relationships |-> PlotIndices({"heatmap", "pairplot"}),
                    timeseries |-> PlotIndices({"timeseries"}),
                    all |-> [k \in 1..Len(plots) |-> k] ] >>
    /\ screen' = Append(screen, "tabs")
    /\ pc' = "zip"
    /\ UNCHANGED <<uploaded_file, uploading, button, df, numeric_cols, categorical_cols,
                   datetime_cols, plots, total_plots, plot_counter, i, progress,
                   progress_bar, done, zip_buffer, html_report, load_calls>>

\* zip_buffer = create_zip_archive(plots); st.download_button(... ZIP ...)
ZipDownload ==
    /\ pc = "zip"
    /\ zip_buffer' = <<create_zip_archive(plots)>>
    /\ done' = done \cup {"zip"}
    /\ screen' = Append(screen, "download_zip")
    /\ pc' = "html"
    /\ UNCHANGED <<uploaded_file, uploading, button, df, numeric_cols, categorical_cols,
                   datetime_cols, plots, total_plots, plot_counter, i, progress,
                   progress_bar, tabs, html_report, load_calls>>

\* html_report = ...; st.download_button(... HTML ...)
HtmlDownload ==
    /\ pc = "html"
    /\ html_report' = <<HtmlReport(plots)>>
    /\ done' = done \cup {"html"}
    /\ screen' = Append(screen, "download_html")
    /\ pc' = "idle"
    /\ UNCHANGED <<uploaded_file, uploading, button, df, numeric_cols, categorical_cols,
                   datetime_cols, plots, total_plots, plot_counter, i, progress,
                   progress_bar, tabs, zip_buffer, load_calls>>

Next ==
    \/ Upload
    \/ RemoveFile
    \/ ClickGenerate
    \/ ClickDownload
    \/ FileUploader
    \/ MainFlow
    \/ Analyze
    \/ Button
    \/ GenStart
    \/ Histograms
    \/ Boxplots
    \/ Barplots
    \/ Heatmap
    \/ Pairplot
    \/ Timeseries
    \/ GenReturn
    \/ DisplayTabs
    \/ ZipDownload
    \/ HtmlDownload

Spec == Init /\ [][Next]_vars

(***************************************************************************)
(* Properties.                                                             *)
(***************************************************************************)
Generated == "generate" \in done

Occurrences(x, seq) == Cardinality({k \in 1..Len(seq) : seq[k] = x})

\* the labels of the plots of one type, in the order of plots
LabelsOf(plot_type) ==
    LET at == PlotIndices({plot_type}) IN [k \in 1..Len(at) |-> plots[at[k]][3]]

CountOf(plot_type) == Len(PlotIndices({plot_type}))

Rank(plot_type) ==
    CASE plot_type = "histogram" -> 1
      [] plot_type = "boxplot" -> 2
      [] plot_type = "barplot" -> 3
      [] plot_type = "heatmap" -> 4
      [] plot_type = "pairplot" -> 5
      [] plot_type = "timeseries" -> 6

\* C1: when generate_visualizations returns, the total computed before the first
\* plot equals the number of plots produced: plot_counter = total_plots = len(plots),
\* for every combination of numeric, categorical and datetime column counts.
C1_TotalEqualsProduced ==
    Generated => /\ plot_counter = total_plots
                 /\ total_plots = Len(plots)

\* C1 witness: the function has returned for a table with datetime and categorical
\* columns and no numeric column (the case the min(1, |numeric|) factor is for).
C1_Witness ==
    /\ Generated
    /\ numeric_cols = <<>>
    /\ datetime_cols # <<>>
    /\ categorical_cols # <<>>
    /\ Len(plots) = Len(categorical_cols)

\* C2: after analyze_data every column is in at most one of the three lists: in
\* numeric iff its dtype is numeric, in datetime iff its dtype is datetime and not
\* numeric, in categorical iff its dtype is neither and it has at most 20 distinct
\* values; a column of neither dtype with more than 20 distinct values is in none.
C2_Classification ==
    "classify" \in done =>
        \A k \in 1..Len(df[1]) :
            LET col == df[1][k]
                num == col.dtype = "float64"
                dt == col.dtype = "datetime64"
                inNum == Occurrences(col.name, numeric_cols)
                inCat == Occurrences(col.name, categorical_cols)
                inDt == Occurrences(col.name, datetime_cols)
            IN /\ inNum + inCat + inDt <= 1
               /\ inNum = 1 <=> num
               /\ inDt = 1 <=> (dt /\ ~num)
               /\ inCat = 1 <=> (~num /\ ~dt /\ col.nunique <= 20)
               /\ (~num /\ ~dt /\ col.nunique > 20) => inNum + inCat + inDt = 0

\* C2 witness: a classified table holding a text column with exactly 20 distinct
\* values, a text column with more than 20 and a numeric column with at most 20.
C2_Witness ==
    /\ "classify" \in done
    /\ \E k \in 1..Len(df[1]) : df[1][k].dtype = "object" /\ df[1][k].nunique = 20
    /\ \E k \in 1..Len(df[1]) : df[1][k].dtype = "object" /\ df[1][k].nunique > 20
    /\ \E k \in 1..Len(df[1]) : df[1][k].dtype = "float64" /\ df[1][k].nunique <= 20

\* C3 as stated: in the run a press of the button started, no result (column
\* metrics, plot tabs) is on display while generation or the ZIP/HTML
\* serialization of that run has not completed.
C3_NoResultBeforePipelineEnds ==
    (button /\ (Shown("metrics") \/ Shown("tabs"))) => {"generate", "zip", "html"} \subseteq done

\* C3 amended: the column metrics are displayed once classification is done (before
\* any generation); the plot tabs are displayed only after generate_visualizations
\* has returned the whole plot list; each download button is displayed only after
\* its own serialization is done.
C3_ResultsFollowTheirStage ==
    /\ Shown("metrics") => "classify" \in done
    /\ Shown("tabs") => /\ Generated
                        /\ Len(plots) = total_plots
                        /\ tabs # <<>>
                        /\ Len(tabs[1].all) = Len(plots)
    /\ Shown("download_zip") => "zip" \in done /\ zip_buffer # <<>>
    /\ Shown("download_html") => "html" \in done /\ html_report # <<>>

\* C3 witness: the plot tabs are on display, with plots in them, and neither
\* serialization has run yet.
C3_Witness ==
    /\ button
    /\ Shown("metrics")
    /\ Shown("tabs")
    /\ Len(plots) > 0
    /\ "zip" \notin done
    /\ "html" \notin done

\* C4: plots is ordered by kind: histograms, boxplots, bar plots, heatmap, pairplot,
\* time series, never a plot of an earlier kind after one of a later kind; the
\* histograms and the boxplots follow the order of the numeric columns, the bar
\* plots that of the categorical columns, the time series that of the datetime
\* columns.
C4_GenerationOrder ==
    /\ \A a, b \in 1..Len(plots) : a < b => Rank(plots[a][1]) <= Rank(plots[b][1])
    /\ Generated =>
        /\ LabelsOf("histogram") = numeric_cols
        /\ LabelsOf("boxplot") = numeric_cols
        /\ LabelsOf("barplot") = categorical_cols
        /\ LET at == PlotIndices({"timeseries"}) IN
           numeric_cols # <<>> =>
               [k \in 1..Len(at) |-> plots[at[k]][2].data[1]] = datetime_cols

\* C4 witness: a returned plot list holding every kind, with two numeric columns.
C4_Witness ==
    /\ Generated
    /\ \A t \in {"histogram", "boxplot", "barplot", "heatmap", "pairplot", "timeseries"} :
           CountOf(t) > 0
    /\ Len(numeric_cols) >= 2

\* C5: the returned list holds |numeric| histograms, |numeric| boxplots and
\* |categorical| bar plots; one heatmap and one pairplot iff there are at least two
\* numeric columns, else none; |datetime| time series iff there is a numeric
\* column, else none.  So 3 numeric columns alone give 8 plots, and 1 numeric,
\* 1 categorical and 1 datetime column give 4 without heatmap or pairplot.
C5_PlotCounts ==
    Generated =>
        LET n == Len(numeric_cols)
            c == Len(categorical_cols)
            d == Len(datetime_cols)
        IN /\ CountOf("histogram") = n
           /\ CountOf("boxplot") = n
           /\ CountOf("barplot") = c
           /\ CountOf("heatmap") = (IF n >= 2 THEN 1 ELSE 0)
           /\ CountOf("pairplot") = (IF n >= 2 THEN 1 ELSE 0)
           /\ CountOf("timeseries") = (IF n >= 1 THEN d ELSE 0)
           /\ (n = 3 /\ c = 0 /\ d = 0) => Len(plots) = 8
           /\ (n = 1 /\ c = 1 /\ d = 1) => Len(plots) = 4

\* C5 witness: the function has returned for one numeric, one categorical and one
\* datetime column.
C5_Witness ==
    /\ Generated
    /\ Len(numeric_cols) = 1
    /\ Len(categorical_cols) = 1
    /\ Len(datetime_cols) = 1
    /\ Len(plots) = 4

\* C6: every time series plot pairs its datetime column with the first numeric
\* column and no other: its label is "{d} & {numeric_cols[0]}" for a datetime column
\* d, it draws these two columns, and once the function has returned with a
\* numeric column present each datetime column has exactly one such plot.
C6_TimeseriesUsesFirstNumeric ==
    /\ \A k \in 1..Len(plots) :
           plots[k][1] = "timeseries" =>
               /\ numeric_cols # <<>>
               /\ \E d \in 1..Len(datetime_cols) :
                      /\ plots[k][3] = datetime_cols[d] \o <<" ", "&", " ">> \o numeric_cols[1]
                      /\ plots[k][2].data = <<datetime_cols[d], numeric_cols[1]>>
                      /\ plots[k][2].title[2] = numeric_cols[1]
    /\ (Generated /\ numeric_cols # <<>>) =>
           \A d \in 1..Len(datetime_cols) :
               Cardinality({k \in 1..Len(plots) :
                               /\ plots[k][1] = "timeseries"
                               /\ plots[k][2].data[1] = datetime_cols[d]}) = 1

\* C6 witness: a time series plot exists while there are several numeric columns.
C6_Witness ==
    /\ Generated
    /\ Len(numeric_cols) >= 2
    /\ CountOf("timeseries") >= 2

\* the text of a ZIP entry name between "plot_{index}_{kind}_" and ".png"
EntryLabel(name, k, plot_type) ==
    SubSeq(name, 5 + Len(Str(k)) + 1 + Len(TypeText(plot_type)) + 1 + 1, Len(name) - 4)

\* C7: the archive holds one PNG entry per plot, in the order of plots, the k-th
\* named plot_{k}_{kind}_{label with spaces replaced by underscores}.png (k from
\* 1) and holding the k-th figure; the names are pairwise distinct, also when two
\* plots have the same kind and the same label in the name.
C7_ZipEntries ==
    zip_buffer # <<>> =>
        LET entries == zip_buffer[1] IN
        /\ Len(entries) = Len(plots)
        /\ \A k \in 1..Len(entries) :
               LET name == entries[k].name
                   label == plots[k][3]
                   head == <<"p", "l", "o", "t", "_">> \o Str(k) \o <<"_">>
                           \o TypeText(plots[k][1]) \o <<"_">>
               IN /\ entries[k].data = <<"png", plots[k][2]>>
                  /\ Len(name) = Len(head) + Len(label) + 4
                  /\ SubSeq(name, 1, Len(head)) = head
                  /\ SubSeq(name, Len(name) - 3, Len(name)) = <<".", "p", "n", "g">>
                  /\ \A j \in 1..Len(label) :
                         name[Len(head) + j] = (IF label[j] = " " THEN "_" ELSE label[j])
        /\ \A a, b \in 1..Len(entries) : a # b => entries[a].name # entries[b].name

\* C7 witness: an archive with two plots of the same kind whose labels are the same
\* once spaces are underscores, and an entry whose label had a space.
C7_Witness ==
    /\ zip_buffer # <<>>
    /\ \E a, b \in 1..Len(plots) :
           /\ a # b
           /\ plots[a][1] = plots[b][1]
           /\ plots[a][3] # plots[b][3]
           /\ EntryLabel(zip_buffer[1][a].name, a, plots[a][1])
                  = EntryLabel(zip_buffer[1][b].name, b, plots[b][1])

UnsupportedName(file) ==
    \A suffix \in {<<".", "c", "s", "v">>, <<".", "x", "l", "s", "x">>, <<".", "x", "l", "s">>} :
        \/ Len(file.name) < Len(suffix)
        \/ SubSeq(file.name, Len(file.name) - Len(suffix) + 1, Len(file.name)) # suffix

LoadFails(file) == UnsupportedName(file) \/ ~file.parses

\* C9: when load_data fails (the name ends in none of .csv, .xlsx, .xls, or the
\* parser raises) an error is displayed, no table is returned and the run stops:
\* no classification, generation or archive, no plot; the run does not end in an
\* exception, and load_data is called once.
C9_LoadFailureHalts ==
    (uploaded_file # <<>> /\ LoadFails(uploaded_file[1])) =>
        /\ pc \in {"main", "idle"}
        /\ df = <<>>
        /\ done = {}
        /\ numeric_cols = <<>> /\ categorical_cols = <<>> /\ datetime_cols = <<>>
        /\ plots = <<>> /\ tabs = <<>> /\ zip_buffer = <<>> /\ html_report = <<>>
        /\ load_calls <= 1
        /\ pc = "idle" =>
               /\ load_calls = 1
               /\ screen = <<IF UnsupportedName(uploaded_file[1])
                             THEN "Unsupported file format"
                             ELSE "Error loading file">>

\* C9 witness: the run for a file with an unsupported name has ended, and so has
\* (in the other disjunct) the run for a file the parser rejected.
C9_Witness ==
    /\ uploaded_file # <<>>
    /\ pc = "idle"
    /\ load_calls = 1
    /\ \/ UnsupportedName(uploaded_file[1]) /\ uploaded_file[1].parses
       \/ ~UnsupportedName(uploaded_file[1]) /\ ~uploaded_file[1].parses

\* C10: progress is reported once after each appended plot, the k-th report being
\* k/total_plots: the reports increase strictly, lie in (0, 1], the last is 1 when
\* a plot was produced, and with total_plots = 0 nothing is reported, so that the
\* division never has a zero divisor.
C10_Progress ==
    /\ Len(progress) = Len(plots)
    /\ Len(progress) = plot_counter
    /\ pc # "crashed"
    /\ \A k \in 1..Len(progress) :
           /\ progress[k] = <<k, total_plots>>
           /\ progress[k][2] # 0
           /\ 0 < progress[k][1] /\ progress[k][1] <= progress[k][2]
    /\ \A k \in 1..(Len(progress) - 1) :
           progress[k][1] * progress[k + 1][2] < progress[k + 1][1] * progress[k][2]
    /\ (Generated /\ Len(plots) > 0) =>
           progress[Len(progress)][1] = progress[Len(progress)][2]
    /\ total_plots = 0 => progress = <<>>

\* C10 witness: the function has returned after at least three reports.
C10_Witness ==
    /\ Generated
    /\ Len(progress) >= 3

====
